---- MODULE Spec2Model ----
(***************************************************************************)
(* The connection pool of db_pooling/with_pool/db_with_pool.py:            *)
(* ConnectionPool keeps its idle connections in a queue.Queue built with   *)
(* maxsize = max_connections; get_connection is a blocking Queue.get,      *)
(* release_connection a blocking Queue.put of any truthy value, close_all  *)
(* a loop "while not empty(): get(); close(); size -= 1".  The pool has no *)
(* closed flag and keeps no record of the handles it lent out.             *)
(*                                                                         *)
(* Connections are numbered: the constructor creates 1..max_connections,   *)
(* ForeignHandle is a connection the pool never created, None is Python's  *)
(* None.  Each thread is at one of these places:                           *)
(*   "idle"         outside the pool's methods                             *)
(*   "get"          blocked in Queue.get inside get_connection             *)
(*   "put"          blocked in Queue.put inside release_connection         *)
(*   "close_check"  in close_all, about to evaluate pool.empty()           *)
(*   "close_get"    in close_all, empty() was False, in Queue.get          *)
(*   "close_store"  in close_all, conn closed and self.size read, about to *)
(*                  store self.size - 1                                    *)
(* A thread inside a DatabaseManager operation (insert_user and the like)  *)
(* is, besides, at one of these places (op[t]):                            *)
(*   "cursor"   conn = self.pool.get_connection() called, conn.cursor() to *)
(*              come (outside the try)                                     *)
(*   "try"      in the body of the try                                     *)
(*   "finally"  the body ended (normally or by raising), release to come   *)
(*   "exit"     release_connection called, the operation about to end      *)
(*                                                                         *)
(* Beside the pool the module holds DatabaseBenchmark.run_benchmark as     *)
(* main runs it, the Logger singleton of creational_patterns.py and the    *)
(* item stores of fastapi/main.py and flask/main.py, each with a           *)
(* specification of its own.                                               *)
(***************************************************************************)
EXTENDS Integers, Sequences, FiniteSets, Bags, TLC

\* Largest max_connections the constructor is called with (0..MaxCap).
MaxCap == 2
\* Number of threads that share the pool.
NumThreads == 3
\* Number of release_connection calls made with a handle the caller does not hold.
MaxMisuse == 1
\* Number of close_all calls.
MaxCloseCalls == 2

\* Python's None (the falsy value release_connection tests for).
None == 0

Threads == 1..NumThreads
\* A connection that was not created by this pool.
ForeignHandle == MaxCap + 1

VARIABLES
    max_connections,  \* self.max_connections
    pool,             \* self.pool: the queue's items, oldest first
    size,             \* self.size
    phase,            \* "init" while __init__ runs, then "open"
    created,          \* number of sqlite3.connect calls made by the pool
    closes,           \* closes[h]: number of conn.close() calls on h
    pc,               \* pc[t]: where thread t is
    held,             \* held[t]: handles t got from get_connection and has not released
    arg,              \* arg[t]: the conn of t's blocked release_connection
    tmp,              \* tmp[t]: the self.size value t read in close_all
    misuse,           \* releases made so far of a handle the caller did not hold
    closeCalls,       \* number of close_all calls made so far
    fresh,            \* no release_connection(conn) or close_all call made yet
    rt,               \* the last get_connection that found an idle handle, while
                      \* nothing else has touched the pool since
    cl,               \* the last close_all calls that returned, while nothing
                      \* else has happened since
    op,               \* op[t]: where t is in a DatabaseManager operation
    raised,           \* raised[t]: the error the try body of t's operation raised
    outcome           \* outcome[t]: how t's last DatabaseManager operation ended

\* The state of the pool, of its callers and of the DatabaseManager operations.
pvars == <<max_connections, pool, size, phase, created, closes, pc, held, arg, tmp,
           misuse, closeCalls, fresh, rt, cl, op, raised, outcome>>

VARIABLES
    lastNone,         \* the thread that made the last release_connection(None) call
    bphase,           \* where DatabaseBenchmark's run is (main thread)
    bleft,            \* operations of the present loop still to be called
    num_operations    \* DatabaseBenchmark.num_operations (None before it is built)

\* The state of the benchmark run.
bvars == <<bphase, bleft, num_operations>>

VARIABLES
    Logger_instance,  \* Logger._instance: the object stored there, or None
    log_history,      \* log_history[o]: the log_history list of Logger object o
    ref,              \* ref[r]: the object the r-th Logger() call returned
    logged,           \* every message passed to log so far, in call order
    got,              \* what the last get_history call returned
    items,            \* fastapi/main.py: the in-memory store
    response,         \* fastapi/main.py: the answer to the last request
    flask_items,      \* flask/main.py: the in-memory store
    flask_pc,         \* flask_pc[t]: where t is in flask's create_item
    flask_item        \* flask_item[t]: the item dict t has built

\* The state of the programs beside the pool.
avars == <<Logger_instance, log_history, ref, logged, got, items, response,
           flask_items, flask_pc, flask_item>>

\* What the pool's own steps leave alone.
gvars == <<lastNone, bvars, avars>>

vars == <<pvars, gvars>>

\* The state of the DatabaseManager operations.
mvars == <<op, raised, outcome>>

\* Every connection value a caller can pass to release_connection.
AllHandles == (1..MaxCap) \cup {ForeignHandle}

NoRT == [who |-> 0, pre |-> <<>>, post |-> <<>>, done |-> FALSE]

\* cl.stage: 0 nothing tracked, 1 a close_all has returned, 2 and close_all has
\* been called again, 3 and that call has returned; cl.size and cl.closes are
\* self.size and the close() counts when the first of them returned.
NoCl == [stage |-> 0, size |-> 0, closes |-> [h \in AllHandles |-> 0]]

----------------------------------------------------------------------------
(* queue.Queue, as ConnectionPool uses it *)

\* Queue.empty()
QueueEmpty(q) == Len(q) = 0

\* Queue.full(): maxsize <= 0 means the queue is unbounded
QueueFull(q, maxsize) == maxsize > 0 /\ Len(q) >= maxsize

\* Queue.get on a non-empty queue: the oldest item, and what is left
QueueGetItem(q) == Head(q)
\* (a get that leaves the item in the queue)
QueueGetRest_Peek(q) == q
QueueGetRest(q) == Tail(q)

\* (a put that stores the item twice)
QueuePut_Twice(q, x) == Append(Append(q, x), x)
\* Queue.put on a queue that is not full
QueuePut(q, x) == Append(q, x)

\* ("if not conn:")
Truthy_Inverted(conn) == conn = None
\* The truth value of a connection argument: "if conn:"
Truthy(conn) == conn # None

----------------------------------------------------------------------------
(* design_patterns/creational/creational_patterns.py: the Logger singleton *)

\* Number of Logger() calls (logger1, logger2, ...), one per reference.
NumRefs == 3
\* Number of different messages.
NumMessages == 2
\* Number of log calls.
MaxLog == 3

\* The references logger1, logger2, ...; the object a Logger() call creates is
\* named after the reference that first received it.
LoggerRefs == 1..NumRefs
Messages == 1..NumMessages

\* got.h: the list get_history returned; got.n: the number of log calls made
\* before that return.
NoGot == [n |-> 0, h |-> <<>>]

InitLogger ==
    /\ Logger_instance = None
    /\ log_history = [o \in LoggerRefs |-> <<>>]
    /\ ref = [r \in LoggerRefs |-> None]
    /\ logged = <<>>
    /\ got = NoGot

\* (a __new__ without the test)
InstanceMissing_Always(inst) == TRUE
\* Logger.__new__: if cls._instance is None
InstanceMissing(inst) == inst = None

\* r = Logger(): __new__ creates and stores the instance if there is none, and
\* returns cls._instance
Logger_new(r) ==
    /\ ref[r] = None
    /\ IF InstanceMissing(Logger_instance)
         THEN /\ Logger_instance' = r
              /\ log_history' = [log_history EXCEPT ![r] = <<>>]
         ELSE UNCHANGED <<Logger_instance, log_history>>
    /\ ref' = [ref EXCEPT ![r] = Logger_instance']
    /\ UNCHANGED <<logged, got, items, response, flask_items, flask_pc, flask_item>>
    /\ UNCHANGED <<pvars, lastNone, bvars>>

\* r.log(m): self.log_history.append(message)
log(r, m) ==
    /\ ref[r] # None
    /\ Len(logged) < MaxLog
    /\ log_history' = [log_history EXCEPT ![ref[r]] = Append(@, m)]
    /\ logged' = Append(logged, m)
    /\ UNCHANGED <<Logger_instance, ref, got, items, response, flask_items,
                   flask_pc, flask_item>>
    /\ UNCHANGED <<pvars, lastNone, bvars>>

\* r.get_history(): return self.log_history
get_history(r) ==
    /\ ref[r] # None
    /\ got' = [n |-> Len(logged), h |-> log_history[ref[r]]]
    /\ UNCHANGED <<Logger_instance, log_history, ref, logged, items, response,
                   flask_items, flask_pc, flask_item>>
    /\ UNCHANGED <<pvars, lastNone, bvars>>

NextLogger ==
    \/ \E r \in LoggerRefs : Logger_new(r)
    \/ \E r \in LoggerRefs, m \in Messages : log(r, m)
    \/ \E r \in LoggerRefs : get_history(r)

----------------------------------------------------------------------------
(* fastapi/main.py: the in-memory item store *)

\* Number of items the store is filled with.
MaxItems == 3

\* Item names as lists of characters, and prices.
Names == {<<>>, <<" ">>, <<" ", " ">>, <<"a">>, <<" ", "a">>, <<"b">>}
Prices == {-1, 0, 1, 2}

NoItem == [id |-> None, name |-> <<>>, price |-> 0]
NoResponse == [req |-> "none", arg |-> None, status |-> 0, item |-> NoItem]

InitFastApi ==
    /\ items = <<>>
    /\ response = NoResponse

\* str.strip(): the string without its leading and trailing blanks
RECURSIVE LStrip(_)
LStrip(name) ==
    IF name # <<>> /\ Head(name) = " " THEN LStrip(Tail(name)) ELSE name
RECURSIVE RStrip(_)
RStrip(name) ==
    IF name # <<>> /\ name[Len(name)] = " "
      THEN RStrip(SubSeq(name, 1, Len(name) - 1))
      ELSE name
Strip(name) == RStrip(LStrip(name))

\* (ids counted from 0)
NextId_FromZero(store) == Len(store)
\* create_item: item.id = len(items) + 1
NextId(store) == Len(store) + 1

\* POST /items with a body of the given name, price and id
create_item(name, price, id) ==
    /\ IF price <= 0
         THEN /\ response' = [req |-> "create", arg |-> None, status |-> 400,
                               item |-> NoItem]
              /\ UNCHANGED items
         ELSE IF Strip(name) = <<>>
         THEN /\ response' = [req |-> "create", arg |-> None, status |-> 400,
                               item |-> NoItem]
              /\ UNCHANGED items
         ELSE /\ Len(items) < MaxItems
              /\ items' = Append(items, [id |-> NextId(items), name |-> name,
                                          price |-> price])
              /\ response' = [req |-> "create", arg |-> None, status |-> 200,
                               item |-> items'[Len(items')]]
    /\ UNCHANGED <<Logger_instance, log_history, ref, logged, got, flask_items,
                   flask_pc, flask_item>>
    /\ UNCHANGED <<pvars, lastNone, bvars>>

\* next((item for item in items if item.id == item_id), None)
FirstWithId(store, item_id) ==
    LET at == {i \in DOMAIN store : store[i].id = item_id}
    IN  IF at = {} THEN NoItem
        ELSE store[CHOOSE i \in at : \A j \in at : i <= j]

\* GET /items/{item_id}
get_item(item_id) ==
    /\ response' = IF FirstWithId(items, item_id) = NoItem
                     THEN [req |-> "get", arg |-> item_id, status |-> 404,
                           item |-> NoItem]
                     ELSE [req |-> "get", arg |-> item_id, status |-> 200,
                           item |-> FirstWithId(items, item_id)]
    /\ UNCHANGED <<Logger_instance, log_history, ref, logged, got, items,
                   flask_items, flask_pc, flask_item>>
    /\ UNCHANGED <<pvars, lastNone, bvars>>

NextFastApi ==
    \/ \E name \in Names, price \in Prices, id \in {None, 1} :
         create_item(name, price, id)
    \/ \E item_id \in 0..MaxItems : get_item(item_id)

----------------------------------------------------------------------------
(* flask/main.py: /addItem handled by the threads of the server *)

\* Number of /addItem requests.
MaxFlaskItems == 3

InitFlask ==
    /\ flask_items = <<>>
    /\ flask_pc = [t \in Threads |-> "idle"]
    /\ flask_item = [t \in Threads |-> None]

\* The /addItem requests received so far.
FlaskRequests == Len(flask_items) + Cardinality({t \in Threads : flask_pc[t] = "built"})

\* create_item: item = {"id": len(items)+1, ...}
FlaskBuildItem(t) ==
    /\ flask_pc[t] = "idle"
    /\ FlaskRequests < MaxFlaskItems
    /\ flask_item' = [flask_item EXCEPT ![t] = Len(flask_items) + 1]
    /\ flask_pc' = [flask_pc EXCEPT ![t] = "built"]
    /\ UNCHANGED <<Logger_instance, log_history, ref, logged, got, items, response,
                   flask_items>>
    /\ UNCHANGED <<pvars, lastNone, bvars>>

\* create_item: items.append(item), and the rest of the request
FlaskAppend(t) ==
    /\ flask_pc[t] = "built"
    /\ flask_items' = Append(flask_items, flask_item[t])
    /\ flask_item' = [flask_item EXCEPT ![t] = None]
    /\ flask_pc' = [flask_pc EXCEPT ![t] = "idle"]
    /\ UNCHANGED <<Logger_instance, log_history, ref, logged, got, items, response>>
    /\ UNCHANGED <<pvars, lastNone, bvars>>

NextFlask ==
    \/ \E t \in Threads : FlaskBuildItem(t)
    \/ \E t \in Threads : FlaskAppend(t)

----------------------------------------------------------------------------
Init ==
    /\ max_connections \in 0..MaxCap
    /\ pool = <<>>
    /\ size = 0
    /\ phase = "init"
    /\ created = 0
    /\ closes = [h \in AllHandles |-> 0]
    /\ pc = [t \in Threads |-> "idle"]
    /\ held = [t \in Threads |-> {}]
    /\ arg = [t \in Threads |-> None]
    /\ tmp = [t \in Threads |-> 0]
    /\ misuse = 0
    /\ closeCalls = 0
    /\ fresh = TRUE
    /\ rt = NoRT
    /\ cl = NoCl
    /\ op = [t \in Threads |-> "none"]
    /\ raised = [t \in Threads |-> "none"]
    /\ outcome = [t \in Threads |-> "none"]
    /\ lastNone = 0
    /\ bphase = "setup"
    /\ bleft = 1
    /\ num_operations = None
    /\ InitLogger
    /\ InitFastApi
    /\ InitFlask

\* ConnectionPool._add_connection: connect, count, put
AddConnection ==
    /\ created' = created + 1
    /\ size' = size + 1
    /\ pool' = QueuePut(pool, created + 1)

\* ConnectionPool.__init__: one turn of the pre-populating loop, or its end
Construct ==
    /\ phase = "init"
    /\ IF created < max_connections
         THEN AddConnection /\ UNCHANGED phase
         ELSE phase' = "open" /\ UNCHANGED <<created, size, pool>>
    /\ UNCHANGED <<max_connections, closes, pc, held, arg, tmp, misuse,
                   closeCalls, fresh, rt, cl>>
    /\ UNCHANGED mvars
    /\ UNCHANGED gvars

\* ConnectionPool.__init__: sqlite3.connect raises in _add_connection and the
\* error leaves __init__ (which has no handler)
ConstructFail ==
    /\ phase = "init"
    /\ created < max_connections
    /\ phase' = "failed"
    /\ UNCHANGED <<max_connections, pool, size, created, closes, pc, held, arg, tmp,
                   misuse, closeCalls, fresh, rt, cl>>
    /\ UNCHANGED mvars
    /\ UNCHANGED gvars

\* (a get that takes the newest item: a stack)
TakeHandle_Lifo(t) ==
    /\ held' = [held EXCEPT ![t] = @ \cup {pool[Len(pool)]}]
    /\ pool' = SubSeq(pool, 1, Len(pool) - 1)

\* The handle t receives from Queue.get, which removes it from the queue.
TakeHandle(t) ==
    /\ held' = [held EXCEPT ![t] = @ \cup {QueueGetItem(pool)}]
    /\ pool' = QueueGetRest(pool)

\* (a get_connection that connects anew when no connection is idle)
get_connection_Grow(t) ==
    /\ phase = "open"
    /\ pc[t] = "idle"
    /\ IF QueueEmpty(pool)
         THEN /\ created' = created + 1
              /\ size' = size + 1
              /\ held' = [held EXCEPT ![t] = @ \cup {created + 1}]
              /\ rt' = NoRT
              /\ UNCHANGED <<pool, pc>>
         ELSE /\ TakeHandle(t)
              /\ rt' = [who |-> t, pre |-> pool, post |-> <<>>, done |-> FALSE]
              /\ UNCHANGED <<pc, created, size>>
    /\ UNCHANGED <<max_connections, phase, closes, arg, tmp, misuse, closeCalls, fresh>>

\* ConnectionPool.get_connection called by t: conn = self.pool.get()
get_connection(t) ==
    /\ phase = "open"
    /\ pc[t] = "idle"
    /\ IF QueueEmpty(pool)
         THEN /\ pc' = [pc EXCEPT ![t] = "get"]
              /\ rt' = rt
              /\ UNCHANGED <<pool, held>>
         ELSE /\ TakeHandle(t)
              /\ rt' = [who |-> t, pre |-> pool, post |-> <<>>, done |-> FALSE]
              /\ UNCHANGED pc
    /\ UNCHANGED <<max_connections, size, phase, created, closes, arg, tmp,
                   misuse, closeCalls, fresh>>

\* The Queue.get of a blocked get_connection returns
GetWake(t) ==
    /\ pc[t] = "get"
    /\ ~QueueEmpty(pool)
    /\ TakeHandle(t)
    /\ pc' = [pc EXCEPT ![t] = "idle"]
    /\ rt' = NoRT
    /\ cl' = NoCl
    /\ UNCHANGED <<max_connections, size, phase, created, closes, arg, tmp,
                   misuse, closeCalls, fresh>>
    /\ UNCHANGED mvars
    /\ UNCHANGED gvars

\* ConnectionPool.release_connection(conn) called by t:
\* if conn: self.pool.put(conn)
release_connection(t, conn) ==
    /\ phase = "open"
    /\ pc[t] = "idle"
    /\ held' = [held EXCEPT ![t] = @ \ {conn}]
    /\ IF Truthy(conn) /\ QueueFull(pool, max_connections)
         THEN /\ pc' = [pc EXCEPT ![t] = "put"]
              /\ arg' = [arg EXCEPT ![t] = conn]
              /\ rt' = NoRT
              /\ UNCHANGED pool
         ELSE /\ pool' = IF Truthy(conn) THEN QueuePut(pool, conn) ELSE pool
              /\ rt' = IF rt.who = t /\ ~rt.done /\ conn = QueueGetItem(rt.pre)
                         THEN [rt EXCEPT !.post = pool', !.done = TRUE]
                         ELSE IF conn = None THEN rt ELSE NoRT
              /\ UNCHANGED <<pc, arg>>
    /\ fresh' = (fresh /\ conn = None)
    /\ UNCHANGED <<max_connections, size, phase, created, closes, tmp, closeCalls>>

\* The Queue.put of a blocked release_connection returns
PutReturn(t) ==
    /\ pc[t] = "put"
    /\ ~QueueFull(pool, max_connections)
    /\ pool' = QueuePut(pool, arg[t])
    /\ pc' = [pc EXCEPT ![t] = "idle"]
    /\ arg' = [arg EXCEPT ![t] = None]
    /\ rt' = NoRT
    /\ cl' = NoCl
    /\ UNCHANGED <<max_connections, size, phase, created, closes, held, tmp,
                   misuse, closeCalls, fresh>>
    /\ UNCHANGED mvars
    /\ UNCHANGED gvars

\* ConnectionPool.close_all called by t
CloseCall(t) ==
    /\ phase = "open"
    /\ pc[t] = "idle"
    /\ pc' = [pc EXCEPT ![t] = "close_check"]
    /\ closeCalls < MaxCloseCalls
    /\ closeCalls' = closeCalls + 1
    /\ fresh' = FALSE
    /\ cl' = IF cl.stage \in {1, 3} THEN [cl EXCEPT !.stage = 2] ELSE cl
    /\ UNCHANGED <<max_connections, pool, size, phase, created, closes, held, arg,
                   tmp, misuse, rt>>
    /\ UNCHANGED mvars
    /\ UNCHANGED gvars

\* What cl becomes when a close_all call ends its loop (returns) or goes on.
ClAfterCheck(returns) ==
    IF ~returns THEN NoCl
    ELSE IF cl.stage = 2 THEN [cl EXCEPT !.stage = 3]
    ELSE [stage |-> 1, size |-> size', closes |-> closes']

\* (a close_all whose "self.size -= 1" stands after the loop)
CloseCheck_Dec(t) ==
    /\ pc[t] = "close_check"
    /\ pc' = [pc EXCEPT ![t] = IF QueueEmpty(pool) THEN "idle" ELSE "close_get"]
    /\ size' = IF QueueEmpty(pool) THEN size - 1 ELSE size
    /\ UNCHANGED <<max_connections, pool, phase, created, closes, held, arg,
                   tmp, misuse, closeCalls, fresh, rt>>
    /\ cl' = ClAfterCheck(QueueEmpty(pool))
    /\ UNCHANGED mvars
    /\ UNCHANGED gvars

\* close_all: while not self.pool.empty()
CloseCheck(t) ==
    /\ pc[t] = "close_check"
    /\ pc' = [pc EXCEPT ![t] = IF QueueEmpty(pool) THEN "idle" ELSE "close_get"]
    /\ UNCHANGED <<max_connections, pool, size, phase, created, closes, held, arg,
                   tmp, misuse, closeCalls, fresh, rt>>
    /\ cl' = ClAfterCheck(QueueEmpty(pool))
    /\ UNCHANGED mvars
    /\ UNCHANGED gvars

\* close_all: conn = self.pool.get(); if conn: conn.close(); (read of self.size)
CloseGet(t) ==
    /\ pc[t] = "close_get"
    /\ ~QueueEmpty(pool)
    /\ pool' = QueueGetRest(pool)
    /\ IF Truthy(QueueGetItem(pool))
         THEN /\ closes' = [closes EXCEPT ![QueueGetItem(pool)] = @ + 1]
              /\ tmp' = [tmp EXCEPT ![t] = size]
              /\ pc' = [pc EXCEPT ![t] = "close_store"]
         ELSE /\ pc' = [pc EXCEPT ![t] = "close_check"]
              /\ UNCHANGED <<closes, tmp>>
    /\ rt' = NoRT
    /\ cl' = NoCl
    /\ UNCHANGED <<max_connections, size, phase, created, held, arg, misuse,
                   closeCalls, fresh>>
    /\ UNCHANGED mvars
    /\ UNCHANGED gvars

\* close_all: self.size -= 1 (the store of the value read, less one)
CloseStore(t) ==
    /\ pc[t] = "close_store"
    /\ size' = tmp[t] - 1
    /\ tmp' = [tmp EXCEPT ![t] = 0]
    /\ pc' = [pc EXCEPT ![t] = "close_check"]
    /\ cl' = NoCl
    /\ UNCHANGED <<max_connections, pool, phase, created, closes, held, arg,
                   misuse, closeCalls, fresh, rt>>
    /\ UNCHANGED mvars
    /\ UNCHANGED gvars

----------------------------------------------------------------------------
(* Callers *)

\* A worker borrows a connection (DatabaseManager's operations: one at a time).
WorkerGet(t) ==
    /\ held[t] = {}
    /\ op[t] = "none"
    /\ get_connection(t)
    /\ cl' = NoCl
    /\ UNCHANGED mvars
    /\ UNCHANGED gvars

\* A worker returns the connection it borrowed.
WorkerRelease(t) ==
    /\ op[t] = "none"
    /\ \E conn \in held[t] : release_connection(t, conn)
    /\ cl' = NoCl
    /\ UNCHANGED misuse
    /\ UNCHANGED mvars
    /\ UNCHANGED gvars

\* release_connection with a handle the caller does not hold: a foreign handle,
\* a handle already released, a handle some other caller holds.
ReleaseInvalid(t) ==
    /\ misuse < MaxMisuse
    /\ op[t] = "none"
    /\ \E conn \in AllHandles \ held[t] : release_connection(t, conn)
    /\ misuse' = misuse + 1
    /\ cl' = NoCl
    /\ UNCHANGED mvars
    /\ UNCHANGED gvars

\* release_connection(None)
ReleaseNone(t) ==
    /\ op[t] = "none"
    /\ release_connection(t, None)
    /\ UNCHANGED <<misuse, cl>>
    /\ UNCHANGED mvars
    /\ lastNone' = t
    /\ UNCHANGED <<bvars, avars>>

\* (a finally block that ends the operation normally, dropping the error)
FinallyOutcome_Swallow(e) == "ok"
\* try: ... finally: release: how the operation ends when its body raised e
\* ("none": the body ended normally); the error is raised again after the finally
FinallyOutcome(e) == IF e = "none" THEN "ok" ELSE e

\* A DatabaseManager operation begins: conn = self.pool.get_connection()
MgrGet(t) ==
    /\ op[t] = "none"
    /\ held[t] = {}
    /\ get_connection(t)
    /\ op' = [op EXCEPT ![t] = "cursor"]
    /\ raised' = [raised EXCEPT ![t] = "none"]
    /\ outcome' = [outcome EXCEPT ![t] = "pending"]
    /\ cl' = NoCl
    /\ UNCHANGED gvars

\* cursor = conn.cursor() returns
MgrCursor(t) ==
    /\ op[t] = "cursor"
    /\ pc[t] = "idle"
    /\ op' = [op EXCEPT ![t] = "try"]
    /\ UNCHANGED <<max_connections, pool, size, phase, created, closes, pc, held, arg,
                   tmp, misuse, closeCalls, fresh, rt, cl, raised, outcome>>
    /\ UNCHANGED gvars

\* cursor = conn.cursor() raises: the statement stands before the try, so the
\* error leaves the operation and conn is not released
MgrCursorRaises(t) ==
    /\ op[t] = "cursor"
    /\ pc[t] = "idle"
    /\ op' = [op EXCEPT ![t] = "none"]
    /\ outcome' = [outcome EXCEPT ![t] = "CursorError"]
    /\ held' = [held EXCEPT ![t] = {}]
    /\ rt' = NoRT
    /\ cl' = NoCl
    /\ UNCHANGED <<max_connections, pool, size, phase, created, closes, pc, arg,
                   tmp, misuse, closeCalls, fresh, raised>>
    /\ UNCHANGED gvars

\* The body of the try (execute, commit, fetch) ends normally
MgrBody(t) ==
    /\ op[t] = "try"
    /\ op' = [op EXCEPT ![t] = "finally"]
    /\ UNCHANGED <<max_connections, pool, size, phase, created, closes, pc, held, arg,
                   tmp, misuse, closeCalls, fresh, rt, cl, raised, outcome>>
    /\ UNCHANGED gvars

\* The body of the try raises
MgrBodyRaises(t) ==
    /\ op[t] = "try"
    /\ op' = [op EXCEPT ![t] = "finally"]
    /\ raised' = [raised EXCEPT ![t] = "WorkError"]
    /\ UNCHANGED <<max_connections, pool, size, phase, created, closes, pc, held, arg,
                   tmp, misuse, closeCalls, fresh, rt, cl, outcome>>
    /\ UNCHANGED gvars

\* finally: self.pool.release_connection(conn)
MgrFinally(t) ==
    /\ op[t] = "finally"
    /\ \E conn \in held[t] : release_connection(t, conn)
    /\ op' = [op EXCEPT ![t] = "exit"]
    /\ cl' = NoCl
    /\ UNCHANGED <<misuse, raised, outcome>>
    /\ UNCHANGED gvars

\* release_connection has returned: the operation returns, or raises the error
\* of its body
MgrExit(t) ==
    /\ op[t] = "exit"
    /\ pc[t] = "idle"
    /\ op' = [op EXCEPT ![t] = "none"]
    /\ outcome' = [outcome EXCEPT ![t] = FinallyOutcome(raised[t])]
    /\ UNCHANGED <<max_connections, pool, size, phase, created, closes, pc, held, arg,
                   tmp, misuse, closeCalls, fresh, rt, cl, raised>>
    /\ UNCHANGED gvars

\* Threads that run DatabaseManager operations.
NextManager ==
    \/ Construct
    \/ ConstructFail
    \/ \E t \in Threads : MgrGet(t)
    \/ \E t \in Threads : GetWake(t)
    \/ \E t \in Threads : MgrCursor(t)
    \/ \E t \in Threads : MgrCursorRaises(t)
    \/ \E t \in Threads : MgrBody(t)
    \/ \E t \in Threads : MgrBodyRaises(t)
    \/ \E t \in Threads : MgrFinally(t)
    \/ \E t \in Threads : MgrExit(t)

----------------------------------------------------------------------------
(* main: DatabaseManager(...), then DatabaseBenchmark(...).run_benchmark(),   *)
(* all in the main thread.  bphase is "setup" (DatabaseManager.__init__:      *)
(* setup_database), "insert", "query", "update" (the three loops of           *)
(* run_benchmark), "close" (self.db_manager.close()), "done" (run_benchmark   *)
(* has returned) or "aborted" (an operation raised: nothing catches it).      *)

\* Largest num_operations a benchmark is built with (0..MaxOperations).
MaxOperations == 2

\* The thread that runs main.
MainThread == 1

\* The phases that call DatabaseManager operations.
OperationPhases == {"setup", "insert", "query", "update"}

\* (a run_benchmark that closes the pool before its last loop)
NextPhase_CloseBeforeUpdate(p) ==
    CASE p = "setup" -> "insert"
      [] p = "insert" -> "query"
      [] p = "query" -> "close"
      [] p = "close" -> "update"
      [] p = "update" -> "done"
      [] OTHER -> p
\* The order of main and run_benchmark: setup_database, the insert loop, the
\* query loop, the update loop, close, return
NextPhase(p) ==
    CASE p = "setup" -> "insert"
      [] p = "insert" -> "query"
      [] p = "query" -> "update"
      [] p = "update" -> "close"
      [] p = "close" -> "done"
      [] OTHER -> p

\* The main thread calls the next operation of the present phase.
BenchCall ==
    /\ bphase \in OperationPhases
    /\ bleft > 0
    /\ outcome[MainThread] = "none"
    /\ MgrGet(MainThread)

\* The operation has returned: the loop counts it.
BenchReturn ==
    /\ bphase \in OperationPhases
    /\ op[MainThread] = "none"
    /\ outcome[MainThread] = "ok"
    /\ bleft' = bleft - 1
    /\ outcome' = [outcome EXCEPT ![MainThread] = "none"]
    /\ UNCHANGED <<max_connections, pool, size, phase, created, closes, pc, held, arg,
                   tmp, misuse, closeCalls, fresh, rt, cl, op, raised>>
    /\ UNCHANGED <<bphase, num_operations, lastNone, avars>>

\* The operation has raised: the error leaves run_benchmark and main.
BenchAbort ==
    /\ bphase \in OperationPhases
    /\ op[MainThread] = "none"
    /\ outcome[MainThread] \in {"CursorError", "WorkError"}
    /\ bphase' = "aborted"
    /\ UNCHANGED <<pvars, bleft, num_operations, lastNone, avars>>

\* The present phase is over and the next one begins; DatabaseBenchmark is built
\* (with its num_operations) after DatabaseManager's setup.
BenchNext ==
    /\ bphase \in OperationPhases
    /\ bleft = 0
    /\ op[MainThread] = "none"
    /\ outcome[MainThread] = "none"
    /\ pc[MainThread] = "idle"
    /\ bphase' = NextPhase(bphase)
    /\ IF bphase = "setup"
         THEN num_operations' \in 0..MaxOperations
         ELSE UNCHANGED num_operations
    /\ bleft' = IF bphase' \in OperationPhases THEN num_operations' ELSE 0
    /\ UNCHANGED <<pvars, lastNone, avars>>

\* self.db_manager.close(): self.pool.close_all()
BenchClose ==
    /\ bphase = "close"
    /\ closeCalls = 0
    /\ CloseCall(MainThread)

\* close has returned: run_benchmark goes on to its end.
BenchDone ==
    /\ bphase = "close"
    /\ closeCalls > 0
    /\ pc[MainThread] = "idle"
    /\ bphase' = NextPhase(bphase)
    /\ UNCHANGED <<pvars, bleft, num_operations, lastNone, avars>>

NextBenchmark ==
    \/ Construct
    \/ ConstructFail
    \/ BenchCall
    \/ MgrCursor(MainThread)
    \/ MgrCursorRaises(MainThread)
    \/ MgrBody(MainThread)
    \/ MgrBodyRaises(MainThread)
    \/ MgrFinally(MainThread)
    \/ MgrExit(MainThread)
    \/ BenchReturn
    \/ BenchAbort
    \/ BenchNext
    \/ BenchClose
    \/ CloseCheck(MainThread)
    \/ CloseGet(MainThread)
    \/ CloseStore(MainThread)
    \/ BenchDone

\* Workers that only run get / use / release cycles.
NextCycles ==
    \/ Construct
    \/ ConstructFail
    \/ \E t \in Threads : WorkerGet(t)
    \/ \E t \in Threads : GetWake(t)
    \/ \E t \in Threads : WorkerRelease(t)

\* The same workers, and callers of close_all.
NextClose ==
    \/ NextCycles
    \/ \E t \in Threads : CloseCall(t)
    \/ \E t \in Threads : CloseCheck(t)
    \/ \E t \in Threads : CloseGet(t)
    \/ \E t \in Threads : CloseStore(t)

\* Any call pattern.
Next ==
    \/ NextClose
    \/ \E t \in Threads : ReleaseInvalid(t)
    \/ \E t \in Threads : ReleaseNone(t)
    \/ \E t \in Threads : PutReturn(t)

SpecCycles == Init /\ [][NextCycles]_vars
SpecClose == Init /\ [][NextClose]_vars
Spec == Init /\ [][Next]_vars

SpecManager == Init /\ [][NextManager]_vars

\* Workers that run cycles and also call release_connection(None).
NextNone ==
    \/ NextCycles
    \/ \E t \in Threads : ReleaseNone(t)

SpecNone == Init /\ [][NextNone]_vars

SpecBenchmark == Init /\ [][NextBenchmark]_vars

\* The main thread goes on running as long as it has a step to take.
FairSpecBenchmark == SpecBenchmark /\ WF_vars(NextBenchmark)

SpecLogger == Init /\ [][NextLogger]_vars
SpecFastApi == Init /\ [][NextFastApi]_vars
SpecFlask == Init /\ [][NextFlask]_vars

\* Workers that go on running cycles under a fair scheduler: a thread that can
\* take its next step all the time takes it (a borrower releases, an idle worker
\* calls get_connection again, a blocked Queue.get returns if an item stays there).
FairSpecCycles ==
    /\ SpecCycles
    /\ WF_vars(Construct)
    /\ \A t \in Threads :
         /\ WF_vars(WorkerGet(t))
         /\ WF_vars(GetWake(t))
         /\ WF_vars(WorkerRelease(t))

\* The steps of the threads that the interpreter runs without any call from
\* outside: a blocked Queue.get returns once an item is there, close_all's loop
\* goes on.  Callers need not call get_connection or release_connection.
FairSpecClose ==
    /\ SpecClose
    /\ WF_vars(Construct)
    /\ \A t \in Threads :
         /\ WF_vars(GetWake(t))
         /\ WF_vars(CloseCheck(t))
         /\ WF_vars(CloseGet(t))
         /\ WF_vars(CloseStore(t))

----------------------------------------------------------------------------
(* Properties *)

\* The handles some caller holds.
Outstanding == UNION {held[t] : t \in Threads}
\* The callers that hold a handle.
Holders == {t \in Threads : held[t] # {}}
\* The callers blocked in get_connection.
Waiters == {t \in Threads : pc[t] = "get"}
\* The handles the constructor created.
PoolHandles == 1..max_connections
\* Number of places of q that hold x.
Occurrences(q, x) == Cardinality({i \in DOMAIN q : q[i] = x})
\* The items of q as a bag.
BagOfSeq(q) == [x \in {q[i] : i \in DOMAIN q} |-> Occurrences(q, x)]
\* Every handle is lent out and none is idle.
Exhausted == QueueEmpty(pool) /\ Cardinality(Outstanding) = max_connections
\* No thread is inside a method of the pool and no caller holds a handle.
AllDone == phase = "open" /\ \A t \in Threads : pc[t] = "idle" /\ held[t] = {}

\* C1: a pool built with max_connections = N >= 1 never has more than N handles
\* outstanding, whatever the callers do (releases of handles that are not
\* outstanding included).
C1_AtMostNOutstanding ==
    max_connections >= 1 => Cardinality(Outstanding) <= max_connections

\* C2: before any close_all, idle handles + outstanding handles = max_connections
\* (stated for N >= 1 and for the states in which no release is in progress).
C2_IdlePlusOutstanding ==
    (/\ phase = "open"
     /\ max_connections >= 1
     /\ closeCalls = 0
     /\ \A t \in Threads : pc[t] # "put")
    => Len(pool) + Cardinality(Outstanding) = max_connections

\* C3: while the pool is open (no close_all yet), every handle the pool created
\* is either once in the idle queue and held by nobody, or held by exactly one
\* caller and not in the idle queue.
C3_ExactlyOneOwner ==
    (phase = "open" /\ max_connections >= 1 /\ closeCalls = 0)
    => \A h \in PoolHandles :
         LET owners == {t \in Threads : h \in held[t]}
         IN  \/ Occurrences(pool, h) = 1 /\ owners = {}
             \/ Occurrences(pool, h) = 0 /\ Cardinality(owners) = 1

\* C4: the idle queue never holds more than max_connections handles, for every
\* max_connections the constructor accepts (0 included).
C4_IdleQueueBounded == Len(pool) <= max_connections

\* C5: with max_connections = 1, no two callers hold a handle at the same time:
\* a second get_connection returns only after the holder's release_connection.
C5_CapacityOneSerializes ==
    max_connections = 1 => Cardinality(Holders) <= 1

C5_Witness ==
    /\ max_connections = 1
    /\ ~fresh
    /\ Cardinality(Holders) = 1
    /\ Waiters # {}

\* C6: a release into an exhausted pool with blocked callers adds one idle
\* handle and returns no blocked get_connection by itself; a blocked
\* get_connection returns only by taking one idle handle, one caller per step,
\* so one release lets one blocked caller through and no second one; a blocked
\* caller can go on whenever a handle is idle; and on a fresh pool the first
\* max_connections get_connection calls do not block.
C6_OneReleaseOneWaiter ==
    /\ [][(Exhausted /\ Waiters # {} /\ Len(pool') > Len(pool))
            => (Len(pool') = 1 /\ Waiters' = Waiters)]_vars
    /\ [][(Waiters' # Waiters /\ Waiters' \subseteq Waiters)
            => /\ Cardinality(Waiters \ Waiters') = 1
               /\ Len(pool) >= 1
               /\ Len(pool') = Len(pool) - 1]_vars
    /\ [][QueueEmpty(pool) => Waiters \subseteq Waiters']_vars
    /\ []((Waiters # {} /\ ~QueueEmpty(pool)) => ENABLED (\E t \in Waiters : GetWake(t)))
    /\ []((phase = "open" /\ fresh
           /\ Cardinality(Holders) + Cardinality(Waiters) <= max_connections)
          => Waiters = {})

C6_Witness ==
    /\ ~fresh
    /\ Len(pool) = 1
    /\ Cardinality(Waiters) >= 2
    /\ Cardinality(Outstanding) = max_connections - 1

\* C7: get_connection on a pool with an idle handle, then release_connection of
\* the handle it returned, with no other operation in between, leaves the idle
\* queue with the same multiset of handles as before the get_connection.
C7_RoundTripSameMultiset ==
    rt.done => BagOfSeq(rt.post) = BagOfSeq(rt.pre)

C7_Witness ==
    /\ rt.done
    /\ Len(rt.pre) >= 2
    /\ rt.post # rt.pre

\* C8: once every worker has finished its get / use / release cycles, the idle
\* queue holds exactly the max_connections handles the constructor created, and
\* the pool has connected max_connections times in all.
C8_AllReturnedNoneCreated ==
    AllDone => /\ Len(pool) = max_connections
               /\ {pool[i] : i \in DOMAIN pool} = PoolHandles
               /\ created = max_connections

C8_Witness ==
    /\ AllDone
    /\ ~fresh
    /\ rt.done
    /\ max_connections = MaxCap
    /\ Len(pool) = MaxCap

\* C9: a get_connection call made after close_all has begun fails with
\* PoolClosed: it hands no handle to its caller.
C9_GetAfterCloseFails ==
    [][\A t \in Threads :
         (max_connections >= 1 /\ closeCalls > 0 /\ pc[t] = "idle")
         => held'[t] \subseteq held[t]]_vars

\* C10: a caller that is blocked in get_connection when close_all is called
\* leaves get_connection (with PoolClosed) at some later time, also when no
\* release_connection follows.
C10_BlockedGetWokenByClose ==
    \A t \in Threads :
      []((max_connections >= 1 /\ pc[t] = "get" /\ closeCalls = 0)
         => [](closeCalls > 0 => <>(pc[t] # "get")))

\* The threads that are inside close_all.
Closing == {t \in Threads : pc[t] \in {"close_check", "close_get", "close_store"}}

\* C11: once close_all has been called the pool stays closed: no thread is
\* handed a handle by get_connection any more, neither by a new call nor by a
\* call that was blocked, also after a borrower has released its handle.
C11_ClosedForever ==
    [][\A t \in Threads :
         (max_connections >= 1 /\ closeCalls > 0) => held'[t] \subseteq held[t]]_vars

\* C12: close_all returns only when no handle is outstanding any more and every
\* handle the pool created has been closed.
C12_CloseWaitsForBorrowers ==
    [][\A t \in Threads :
         (pc[t] = "close_check" /\ pc'[t] = "idle")
         => /\ Outstanding = {}
            /\ \A h \in PoolHandles : closes[h] >= 1]_vars

\* C13: after close_all has returned the idle queue is empty and stays empty,
\* and no handle has been closed more than once, whatever get_connection and
\* release_connection calls run beside it.
C13_DrainedStaysEmpty ==
    (closeCalls > 0 /\ Closing = {})
    => /\ pool = <<>>
       /\ \A h \in AllHandles : closes[h] <= 1

\* C14: a second close_all, called when the first has returned and nothing else
\* has run since, finds the queue empty, closes no handle again and returns
\* with the idle queue, the size counter and the closed handles as the first
\* call left them.
C14_CloseAllIdempotent ==
    /\ cl.stage = 2 => QueueEmpty(pool)
    /\ cl.stage \in {2, 3} => /\ pool = <<>>
                              /\ size = cl.size
                              /\ closes = cl.closes

C14_Witness ==
    /\ cl.stage = 3
    /\ max_connections = MaxCap
    /\ \A h \in PoolHandles : closes[h] = 1
    /\ Closing = {}

\* C15: a release_connection call with a handle that its caller does not hold
\* (never lent out, or released before) leaves the pool as it was: the idle
\* queue, the size counter and the closed handles do not change.
C15_InvalidReleaseNoEffect ==
    [][misuse' # misuse => UNCHANGED <<pool, size, closes>>]_vars

\* C16: a release_connection call with a handle its caller holds never blocks:
\* in one step the handle leaves the caller and joins the idle queue, whatever
\* calls came before.
C16_ReleaseNeverBlocks ==
    [][\A t \in Threads :
         (pc[t] = "idle" /\ misuse' = misuse
          /\ held'[t] # held[t] /\ held'[t] \subseteq held[t])
         => /\ pc'[t] = "idle"
            /\ Len(pool') = Len(pool) + 1]_vars

\* C17: with workers that each repeat get_connection then release_connection,
\* every borrower releasing and the scheduler fair, a caller blocked in
\* get_connection is handed a handle at some later time.
C17_NoStarvation ==
    \A t \in Threads :
      (phase = "open" /\ max_connections >= 1 /\ pc[t] = "get") ~> (held[t] # {})

\* C18: when the creation of a handle fails during construction, every handle
\* created before it has been closed.
C18_FailedConstructionClosesAll ==
    phase = "failed" => \A h \in 1..created : closes[h] >= 1

\* C19: whenever no DatabaseManager operation is running, whether the earlier
\* ones returned or raised, every connection of the pool is back in the idle
\* queue: the idle count is pool_size.
C19_ManagerAlwaysReleases ==
    (phase = "open" /\ max_connections >= 1
     /\ \A t \in Threads : op[t] = "none" /\ pc[t] = "idle")
    => Len(pool) = max_connections

C21_DrainIsExclusive ==
    \A t \in Threads : pc[t] = "close_get" => ~QueueEmpty(pool)

\* C22: while no handle is released by a caller that does not hold it, a handle
\* that a borrower holds is neither closed by close_all nor handed to a second
\* caller by get_connection.
C22_OutstandingUntouched ==
    [][/\ \A h \in AllHandles : closes'[h] # closes[h] => h \notin Outstanding
       /\ \A t \in Threads : \A h \in held'[t] \ held[t] : h \notin Outstanding]_vars

C22_Witness ==
    /\ max_connections = MaxCap
    /\ \E h \in PoolHandles : closes[h] >= 1 /\ h \notin Outstanding
    /\ \E t \in Threads : held[t] # {} /\ \A h \in held[t] : closes[h] = 0
    /\ Closing # {}

\* C24: get_connection hands out the oldest idle handle: a caller that takes a
\* handle takes the head of the queue, and a get followed by the release of
\* that handle, with no other call in between, leaves the queue rotated by one
\* place (so that a lone caller meets the N handles in round-robin order).
C24_FifoRoundRobin ==
    [][/\ \A t \in Threads : \A h \in held'[t] \ held[t] : h = Head(pool)
       /\ rt'.done => rt'.post = Append(Tail(rt'.pre), Head(rt'.pre))]_vars

C24_Witness ==
    /\ rt.done
    /\ max_connections = MaxCap
    /\ Len(rt.pre) = MaxCap
    /\ rt.post # rt.pre

\* C23: every Logger() call returns the one instance stored in the class,
\* whose log_history holds every message logged so far through any reference,
\* in call order (so no later Logger() call has reset it), and get_history
\* returns that whole list.
C23_LoggerSingleton ==
    /\ \A r \in LoggerRefs : ref[r] # None => ref[r] = Logger_instance
    /\ Logger_instance # None => log_history[Logger_instance] = logged
    /\ got.h = SubSeq(logged, 1, got.n)

C23_Witness ==
    /\ \A r \in LoggerRefs : ref[r] # None
    /\ Len(logged) = MaxLog
    /\ got.n = MaxLog

\* C25: once run_benchmark has called close, every operation has returned, no
\* operation is begun any more, and no thread holds or waits for a handle:
\* close_all runs with no handle outstanding.
C25_CloseAfterAllOperations ==
    closeCalls > 0
    => /\ bphase \in {"close", "done"}
       /\ Outstanding = {}
       /\ \A t \in Threads : op[t] = "none" /\ pc[t] \notin {"get", "put"}

C25_Witness ==
    /\ Closing # {}
    /\ max_connections = MaxCap
    /\ num_operations = MaxOperations
    /\ Len(pool) = MaxCap

\* C26: a close_all called with every handle idle and nothing else running
\* ends, and when it has ended the idle queue is empty, the size counter is 0
\* and close() has been called once on each of the max_connections handles.
C26_CloseAllDrains ==
    /\ [](bphase = "done"
           => /\ pool = <<>>
              /\ size = 0
              /\ \A h \in AllHandles :
                   closes[h] = IF h \in PoolHandles THEN 1 ELSE 0)
    /\ (bphase = "close") ~> (bphase = "done")

C26_Witness ==
    /\ bphase = "done"
    /\ max_connections = MaxCap
    /\ num_operations = MaxOperations
    /\ created = MaxCap

\* The number of conn.close() calls made on the handles of S.
RECURSIVE CloseCount(_)
CloseCount(S) ==
    IF S = {} THEN 0
    ELSE LET h == CHOOSE x \in S : TRUE IN closes[h] + CloseCount(S \ {h})

\* C27: whenever no thread is inside close_all, the size counter is the number
\* of handles created less the number of close() calls made, and lies in
\* 0..max_connections.
C27_SizeCounterExact ==
    Closing = {}
    => /\ size = created - CloseCount(AllHandles)
       /\ 0 <= size
       /\ size <= max_connections

\* C28: release_connection(None) changes nothing: the idle queue, the size
\* counter, the handles held and closed stay as they are, and the caller is
\* not blocked.
C28_ReleaseNoneNoOp ==
    [][\A t \in Threads :
         release_connection(t, None)
         => UNCHANGED <<pool, size, held, closes, pc, arg, created>>]_vars

C28_Witness ==
    /\ lastNone # 0
    /\ max_connections = MaxCap
    /\ held[lastNone] # {}
    /\ pool # <<>>

\* C29: after every request the item at place i of the store (counted from 1)
\* has id i, and a create_item request answered with 400 has left the store as
\* it was; get_item then finds, for an id in range, the item at that place.
C29_DenseIds ==
    [][/\ \A i \in DOMAIN items' : items'[i].id = i
       /\ (response'.req = "create" /\ response'.status = 400) => items' = items
       /\ (response'.req = "get" /\ response'.arg \in DOMAIN items')
          => (response'.status = 200 /\ response'.item = items'[response'.arg])]_vars

C29_Witness ==
    /\ Len(items) = MaxItems
    /\ response.req = "create"
    /\ response.status = 400

\* C30: the items stored by concurrent /addItem requests all have different
\* ids.
C30_FlaskIdsDistinct ==
    \A i, j \in DOMAIN flask_items : i # j => flask_items[i] # flask_items[j]

====
